---- MODULE Spec2Model ----
(***************************************************************************)
(* Model of svc-utils: the axum identity extractors                        *)
(* (src/extractors/authn.rs).  Header values and query strings are byte    *)
(* sequences, so that HeaderValue::to_str, str::get(7..) and               *)
(* url::form_urlencoded::parse are computed the way the code computes them.*)
(***************************************************************************)
EXTENDS Integers, Sequences, FiniteSets, TLC

(***************************************************************************)
(* Options: None is the empty sequence, Some(x) the one-element sequence.  *)
(***************************************************************************)
None == <<>>
Some(x) == <<x>>
IsSome(o) == Len(o) = 1
Unwrap(o) == o[1]

(***************************************************************************)
(* Byte strings used by the code and by the sample requests.               *)
(***************************************************************************)
\* "Bearer ".len()
BearerLen == 7
\* StatusCode::UNAUTHORIZED
UNAUTHORIZED == 401
\* the replacement character String::from_utf8_lossy puts for an invalid byte
ReplacementChar == 65533

\* "Bearer "
BearerPrefix == <<66, 101, 97, 114, 101, 114, 32>>
\* "access_token"
AccessTokenKey == <<97, 99, 99, 101, 115, 115, 95, 116, 111, 107, 101, 110>>
\* "t1", "t2", "tx", "tb": the tokens the sample verifier knows
TokT1 == <<116, 49>>
TokT2 == <<116, 50>>
TokTx == <<116, 120>>
TokTb == <<116, 98>>
\* "web"
LabelWeb == <<119, 101, 98>>
\* "http"
LabelHttp == <<104, 116, 116, 112>>

(***************************************************************************)
(* HeaderValue::to_str: Ok only when every byte is visible ASCII or a tab. *)
(***************************************************************************)
IsVisibleAscii(b) == (b >= 32 /\ b < 127) \/ b = 9

ToStr(bytes) ==
    IF \A i \in 1..Len(bytes) : IsVisibleAscii(bytes[i]) THEN Some(bytes) ELSE None

\* str::get(n..): None when n is past the end (every byte here is ASCII, so
\* every index is a character boundary)
GetFrom(s, n) == IF n <= Len(s) THEN Some(SubSeq(s, n + 1, Len(s))) ELSE None

\* headers.get(name).and_then(|x| x.to_str().ok())
HeaderStr(header) == IF IsSome(header) THEN ToStr(Unwrap(header)) ELSE None

\* lines 38-42: the token taken from the Authorization header
AuthHeaderToken(parts) ==
    LET s == HeaderStr(parts.headers.authorization)
    IN  IF IsSome(s) THEN GetFrom(Unwrap(s), BearerLen) ELSE None

(***************************************************************************)
(* url::form_urlencoded::parse                                             *)
(***************************************************************************)
\* index of the first occurrence of byte c in s, 0 when there is none
RECURSIVE IndexFrom(_, _, _)
IndexFrom(s, c, i) ==
    IF i > Len(s) THEN 0
    ELSE IF s[i] = c THEN i
    ELSE IndexFrom(s, c, i + 1)

IndexOf(s, c) == IndexFrom(s, c, 1)

IsHexDigit(b) ==
    (b >= 48 /\ b <= 57) \/ (b >= 65 /\ b <= 70) \/ (b >= 97 /\ b <= 102)

HexVal(b) ==
    IF b >= 48 /\ b <= 57 THEN b - 48
    ELSE IF b >= 65 /\ b <= 70 THEN b - 55
    ELSE b - 87

\* replace_plus, then percent_decode
RECURSIVE PercentDecode(_)
PercentDecode(s) ==
    IF s = <<>> THEN <<>>
    ELSE IF s[1] = 37 /\ Len(s) >= 3 /\ IsHexDigit(s[2]) /\ IsHexDigit(s[3])
         THEN <<16 * HexVal(s[2]) + HexVal(s[3])>> \o PercentDecode(SubSeq(s, 4, Len(s)))
    ELSE IF s[1] = 43
         THEN <<32>> \o PercentDecode(Tail(s))
    ELSE <<s[1]>> \o PercentDecode(Tail(s))

\* String::from_utf8_lossy on the decoded bytes.  The sample queries decode
\* to ASCII or to a lone byte >= 128, which is never valid UTF-8.
Utf8Lossy(s) == [i \in 1..Len(s) |-> IF s[i] < 128 THEN s[i] ELSE ReplacementChar]

Decode(s) == Utf8Lossy(PercentDecode(s))

\* the (name, value) pairs of the query, in order; empty sequences between
\* '&' are skipped, a pair without '=' has the empty value
RECURSIVE FormParse(_)
FormParse(input) ==
    IF input = <<>> THEN <<>>
    ELSE LET amp == IndexOf(input, 38)
             sequence == IF amp = 0 THEN input ELSE SubSeq(input, 1, amp - 1)
             rest == IF amp = 0 THEN <<>> ELSE SubSeq(input, amp + 1, Len(input))
             eq == IndexOf(sequence, 61)
             name == IF eq = 0 THEN sequence ELSE SubSeq(sequence, 1, eq - 1)
             value == IF eq = 0 THEN <<>> ELSE SubSeq(sequence, eq + 1, Len(sequence))
         IN  IF sequence = <<>> THEN FormParse(rest)
             ELSE << <<Decode(name), Decode(value)>> >> \o FormParse(rest)

\* .find(|(key, _)| key == "access_token").map(|(_, val)| val)
RECURSIVE FindKey(_, _)
FindKey(pairs, key) ==
    IF pairs = <<>> THEN None
    ELSE IF pairs[1][1] = key THEN Some(pairs[1][2])
    ELSE FindKey(Tail(pairs), key)

\* lines 43-45: parts.uri.query().unwrap_or("")
AccessToken(parts) ==
    LET query == IF IsSome(parts.uri_query) THEN Unwrap(parts.uri_query) ELSE <<>>
    IN  FindKey(FormParse(query), AccessTokenKey)

(***************************************************************************)
(* Identities, the verifier and the rejections.                            *)
(***************************************************************************)
\* AccountId::new(label, audience)
AccountId(subject, audience) == [subject |-> subject, audience |-> audience]

\* AgentId::new(label, account_id)
AgentId(label, account) == [label |-> label, account |-> account]

\* field::display of an AccountId is "subject.audience", of an AgentId
\* "label.subject.audience"
DisplayAccountId(id) == <<id.subject, ".", id.audience>>
DisplayAgentId(id) == <<id.label, ".">> \o DisplayAccountId(id.account)

VerifyOk(subject, audience) ==
    [ok |-> TRUE, claims |-> [subject |-> subject, audience |-> audience], err |-> ""]
VerifyErr(msg) ==
    [ok |-> FALSE, claims |-> [subject |-> "", audience |-> ""], err |-> msg]

\* decode_jws_compact_with_config(token, &authn): the external verifier, a
\* function of the token and the configuration.  cfgA trusts the issuers of
\* t1 and t2, cfgB only the issuer of t2; tx is expired, tb is badly signed,
\* every other string is not a token.
Verify(token, authn) ==
    IF token = TokT1 THEN
        IF authn = "cfgA" THEN VerifyOk("u1", "a1") ELSE VerifyErr("unknown audience")
    ELSE IF token = TokT2 THEN VerifyOk("u2", "a2")
    ELSE IF token = TokTx THEN VerifyErr("token expired")
    ELSE IF token = TokTb THEN VerifyErr("bad signature")
    ELSE VerifyErr("malformed token")

\* Json(Error::new(kind, title, status)) paired with the response status
Rejection(status, kind, title) ==
    [status |-> status, body |-> [type |-> kind, title |-> title, status |-> status]]

\* NoAuthnConfig built with the code of the other rejections
NoAuthnConfig_WrongCode == Rejection(UNAUTHORIZED, "invalid_authentication", "No authn config")

\* lines 29-36
NoAuthnConfig == Rejection(UNAUTHORIZED, "no_authn_config", "No authn config")

\* MissingIdentity answered as a missing configuration
MissingIdentity_WrongCode == Rejection(UNAUTHORIZED, "no_authn_config", "Invalid authentication")

\* lines 55-62
MissingIdentity ==
    Rejection(UNAUTHORIZED, "invalid_authentication", "Invalid authentication")

\* lines 67-77: the verifier's error, e.to_string(), becomes the title
VerifyRejection(e) == Rejection(UNAUTHORIZED, "invalid_authentication", e)

Ok(v) == [ok |-> TRUE, id |-> Some(v), rej |-> None]
Err(r) == [ok |-> FALSE, id |-> None, rej |-> Some(r)]

(***************************************************************************)
(* The extractors.  An extraction yields its result, the request parts as  *)
(* it leaves them, the verifier calls it made and the span fields it       *)
(* recorded.                                                               *)
(***************************************************************************)
Outcome(result, parts, calls, recorded) ==
    [result |-> result, parts |-> parts, calls |-> calls, recorded |-> recorded]

\* ExtractExtension that takes the extension out of the request
ExtractExtension_Take(parts, key) ==
    [value |-> parts.extensions[key], parts |-> [parts EXCEPT !.extensions[key] = None]]

\* parts.extract::<Extension<Arc<T>>>(): clones the extension, which stays
\* attached to the request
ExtractExtension(parts, key) ==
    [value |-> parts.extensions[key], parts |-> parts]

\* SelectToken with the match arms in the other order
SelectToken_QueryFirst(auth_header, access_token) ==
    IF IsSome(access_token) THEN access_token
    ELSE IF IsSome(auth_header) THEN auth_header
    ELSE None

\* lines 47-49: the header token wins over the query token
SelectToken(auth_header, access_token) ==
    IF IsSome(auth_header) THEN auth_header
    ELSE IF IsSome(access_token) THEN access_token
    ELSE None

\* AnonymousId that keeps the whole seeded identity
AnonymousId_KeepSubject(id) == AccountId(id.subject, id.audience)

\* lines 63-64
AnonymousId(id) == AccountId("anonymous", id.audience)

\* ClaimsAccountId with the arguments of AccountId::new exchanged
ClaimsAccountId_Swapped(claims) == AccountId(claims.audience, claims.subject)

\* line 80
ClaimsAccountId(claims) == AccountId(claims.subject, claims.audience)

\* lines 50-65: no token at all, the seeded identity decides; nothing is
\* recorded into the span on this path
SeededFallback(parts) ==
    LET idX == ExtractExtension(parts, "account")
    IN  IF IsSome(idX.value)
        THEN Outcome(Ok(AnonymousId(Unwrap(idX.value))), idX.parts, <<>>, <<>>)
        ELSE Outcome(Err(MissingIdentity), idX.parts, <<>>, <<>>)

\* lines 47-84 once a token was selected
VerifiedIdentity(token, authn, parts) ==
    LET v == Verify(token, authn)
        account_id == ClaimsAccountId(v.claims)
    IN  IF v.ok
        THEN Outcome(Ok(account_id), parts, << <<token, authn>> >>,
                     << <<"account_id", DisplayAccountId(account_id)>> >>)
        ELSE Outcome(Err(VerifyRejection(v.err)), parts, << <<token, authn>> >>, <<>>)

\* AccountIdExtractor::from_request_parts
AccountIdExtract(parts) ==
    LET authnX == ExtractExtension(parts, "authn")
        parts1 == authnX.parts
        token == SelectToken(AuthHeaderToken(parts1), AccessToken(parts1))
    IN  IF ~IsSome(authnX.value)
        THEN Outcome(Err(NoAuthnConfig), parts1, <<>>, <<>>)
        ELSE IF IsSome(token)
        THEN VerifiedIdentity(Unwrap(token), Unwrap(authnX.value), parts1)
        ELSE SeededFallback(parts1)

\* AgentLabel that falls back to the empty label
AgentLabel_Empty(parts) ==
    LET s == HeaderStr(parts.headers.x_agent_label)
    IN  IF IsSome(s) THEN Unwrap(s) ELSE <<>>

\* lines 99-104
AgentLabel(parts) ==
    LET s == HeaderStr(parts.headers.x_agent_label)
    IN  IF IsSome(s) THEN Unwrap(s) ELSE LabelHttp

\* AgentIdExtractor::from_request_parts
AgentIdExtract(parts) ==
    LET agent_label == AgentLabel(parts)
        acc == AccountIdExtract(parts)
        agent_id == AgentId(agent_label, Unwrap(acc.result.id))
    IN  IF ~acc.result.ok
        THEN acc
        ELSE Outcome(Ok(agent_id), acc.parts, acc.calls,
                     acc.recorded \o << <<"agent_id", DisplayAgentId(agent_id)>> >>)

(***************************************************************************)
(* The requests the model draws from.                                      *)
(***************************************************************************)
\* resolutions of one request before it is dispatched
MaxResolve == 2

AuthorizationHeaders ==
    { None,
      \* "Bearer t1", "Bearer t2", "Bearer tx"
      Some(BearerPrefix \o TokT1), Some(BearerPrefix \o TokT2), Some(BearerPrefix \o TokTx),
      \* "Bearer " (an empty token) and "Bearer" (shorter than the prefix)
      Some(BearerPrefix), Some(<<66, 101, 97, 114, 101, 114>>),
      \* "Digest t1": another scheme whose name is as long as "Bearer"
      Some(<<68, 105, 103, 101, 115, 116, 32>> \o TokT1),
      \* "Bearer t1" followed by the byte 0xFF, which is not visible ASCII
      Some(BearerPrefix \o TokT1 \o <<255>>) }

Queries ==
    { None,
      \* access_token=t1
      Some(AccessTokenKey \o <<61>> \o TokT1),
      \* x=1&access_token=t2
      Some(<<120, 61, 49, 38>> \o AccessTokenKey \o <<61>> \o TokT2),
      \* access_token=tb&access_token=t1
      Some(AccessTokenKey \o <<61>> \o TokTb \o <<38>> \o AccessTokenKey \o <<61>> \o TokT1),
      \* access%5Ftoken=t%31
      Some(<<97, 99, 99, 101, 115, 115, 37, 53, 70, 116, 111, 107, 101, 110, 61, 116, 37, 51, 49>>),
      \* Access_token=t1
      Some(<<65, 99, 99, 101, 115, 115, 95, 116, 111, 107, 101, 110, 61>> \o TokT1),
      \* access_token (no value)
      Some(AccessTokenKey) }

AgentLabelHeaders ==
    { None, Some(LabelWeb),
      \* "w\xE9b": a value that is not visible ASCII
      Some(<<119, 233, 98>>) }

AuthnConfigs == { None, Some("cfgA"), Some("cfgB") }

SeededAccounts == { None, Some(AccountId("svc", "a2")), Some(AccountId("bot", "a1")) }

Requests ==
    [ headers : [authorization : AuthorizationHeaders, x_agent_label : AgentLabelHeaders],
      uri_query : Queries,
      extensions : [authn : AuthnConfigs, account : SeededAccounts] ]

(***************************************************************************)
(* State: one request at a time goes through an extractor (possibly more   *)
(* than once) and is then handed to the handler or rejected.               *)
(***************************************************************************)
VARIABLES
    parts,           \* the request parts the extractor works on
    received,        \* the request as it was received
    extractor,       \* "account" or "agent": the extractor of the route
    pc,              \* "recv" while extracting, "done" once answered, then "idle"
    results,         \* the outcomes of the extractions of this request
    span,            \* the fields recorded into the request's span
    handlerCalls,    \* invocations of the inner handler for this request
    response,        \* the response sent for this request
    lastVerifyFail   \* body of the latest rejection of a token by the verifier

vars == <<parts, received, extractor, pc, results, span, handlerCalls, response,
          lastVerifyFail>>

EmptySpan == [account_id |-> None, agent_id |-> None]

\* Span::current().record(field, value)
RECURSIVE RecordAll(_, _)
RecordAll(sp, recorded) ==
    IF recorded = <<>> THEN sp
    ELSE RecordAll([sp EXCEPT ![recorded[1][1]] = Some(recorded[1][2])], Tail(recorded))

(***************************************************************************)
(* The metrics middleware (src/middleware/metrics.rs): labels, the slots   *)
(* an interceptor is built with, and the label-keyed metric vectors.       *)
(***************************************************************************)
\* (100..600): the first status tried and the end of the range, not tried
StatusFrom == 100
StatusEnd == 600
\* StatusCode::try_from accepts the three-digit numbers
StatusCodeMin == 100
StatusCodeEnd == 1000

\* "/rooms/:id", "/a/b", "/a_b"
RouteRooms == <<47, 114, 111, 111, 109, 115, 47, 58, 105, 100>>
RouteAB == <<47, 97, 47, 98>>
RouteA_B == <<47, 97, 95, 98>>

\* str::trim_start_matches(c)
RECURSIVE TrimStartMatches(_, _)
TrimStartMatches(s, c) ==
    IF s # <<>> /\ s[1] = c THEN TrimStartMatches(Tail(s), c) ELSE s

\* str::replace(c, d) for one-byte patterns
ReplaceByte(s, c, d) == [i \in 1..Len(s) |-> IF s[i] = c THEN d ELSE s[i]]

\* PathLabel that also drops the ':' of a path parameter
PathLabel_NoColon(route) ==
    SelectSeq(ReplaceByte(TrimStartMatches(route, 47), 47, 95), LAMBDA b : b # 58)

\* PathLabel that only strips the leading '/'
PathLabel_Trim(route) == TrimStartMatches(route, 47)
\* line 101: path.trim_start_matches('/').replace('/', "_")
PathLabel(route) == ReplaceByte(TrimStartMatches(route, 47), 47, 95)

\* lines 102-109
Methods == {"PUT", "POST", "OPTIONS", "GET", "PATCH", "HEAD"}

\* StatusCode::try_from(x).ok()
StatusCodeFrom(x) == IF x >= StatusCodeMin /\ x < StatusCodeEnd THEN Some(x) ELSE None

\* StatusCodes whose range ends one status early
StatusCodes_Short == {x \in StatusFrom..(StatusEnd - 2) : IsSome(StatusCodeFrom(x))}

\* line 110: (100..600).filter_map(|x| StatusCode::try_from(x).ok())
StatusCodes == {x \in StatusFrom..(StatusEnd - 1) : IsSome(StatusCodeFrom(x))}

\* StatusCode::canonical_reason, for the statuses the model answers with
CanonicalReason(status) ==
    IF status = 200 THEN "OK"
    ELSE IF status = 404 THEN "Not Found"
    ELSE "<unknown status code>"

\* status.to_string(): the number, a space and the canonical reason
StatusLabel(status) == <<status, " ", CanonicalReason(status)>>

\* a OnceCell: empty, being initialised by one caller, or holding a handle
EmptyCell == [state |-> "empty", handle |-> None]
RunningCell == [state |-> "running", handle |-> None]
SetCell(h) == [state |-> "set", handle |-> Some(h)]

\* a keyed map that grows: HashMap of the children of a metric vector, and
\* of the cells of the (method, status) slots that were touched
Get(f, k, default) == IF k \in DOMAIN f THEN f[k] ELSE default
Put(f, k, v) == [x \in DOMAIN f \cup {k} |-> IF x = k THEN v ELSE f[x]]
EmptyMap == [x \in {} |-> 0]

\* lines 111-121: the slots of a new interceptor.  The (method, status)
\* slots are the product methods x statuses; cells holds the cells of that
\* product that are not empty.
NewDurations == [m \in Methods |-> EmptyCell]
NewStats == [methods |-> Methods, statuses |-> StatusCodes, cells |-> EmptyMap]

\* HasStatsSlot that finds a slot for every key
HasStatsSlot_Any(stats, method, status) == TRUE
\* HashMap::get on the (method, status) slots
HasStatsSlot(stats, method, status) ==
    method \in stats.methods /\ status \in stats.statuses
StatsCell(stats, method, status) == Get(stats.cells, <<method, status>>, EmptyCell)

\* lines 100-128: MetricsMiddleware::new (stats is the index of the shared
\* Arc<HashMap>)
NewMiddleware(route, statsIndex) ==
    [route |-> route, path |-> PathLabel(route), durations |-> NewDurations,
     stats |-> statsIndex]

\* the middleware cloned with a fresh, empty durations map
CloneMiddleware_Fresh(mw) == [mw EXCEPT !.durations = NewDurations]

\* #[derive(Clone)]: durations is copied cell by cell (a set cell keeps its
\* handle), stats is the same Arc
CloneMiddleware(mw) == mw

(***************************************************************************)
(* METRICS: Lazy<Metrics>, three vectors registered with the default       *)
(* registry when first used.  A vector maps label values to its child; a   *)
(* child is [count, sum]: observations and their sum for a histogram, the  *)
(* value for a counter.                                                    *)
(***************************************************************************)
VecNames == {"request_duration", "request_body_size", "request_stats"}

NewChild == [count |-> 0, sum |-> 0]

NoMetrics ==
    [forced |-> FALSE, request_duration |-> EmptyMap, request_body_size |-> EmptyMap,
     request_stats |-> EmptyMap]

NoneCreated ==
    [request_duration |-> EmptyMap, request_body_size |-> EmptyMap,
     request_stats |-> EmptyMap]

\* the process-wide state: METRICS, how often each vector was registered,
\* and how many children were created for each label set
World(m, reg, cr) == [M |-> m, registry |-> reg, created |-> cr]

\* lines 21-52: Lazy::new(Metrics::new), run by the first use of METRICS
Force(w) ==
    IF w.M.forced THEN w
    ELSE [w EXCEPT !.M.forced = TRUE,
                   !.registry = [n \in VecNames |-> w.registry[n] + 1]]

GetResult(w, handle) == [w |-> w, handle |-> handle]

\* get_metric_with_label_values that makes a new child on every call
GetMetricWithLabelValues_New(w, vec, key, ok) ==
    LET f == Force(w)
    IN  IF ~ok THEN GetResult(f, None)
        ELSE GetResult([f EXCEPT !.M[vec] = Put(@, key, NewChild),
                                 !.created[vec] = Put(@, key, Get(@, key, 0) + 1)],
                       Some(key))

\* MetricVec::get_metric_with_label_values: the child of these label
\* values, created if there is none yet; ok = FALSE is the Err outcome
GetMetricWithLabelValues(w, vec, key, ok) ==
    LET f == Force(w)
    IN  IF ~ok THEN GetResult(f, None)
        ELSE IF key \in DOMAIN f.M[vec] THEN GetResult(f, Some(key))
        ELSE GetResult([f EXCEPT !.M[vec] = Put(@, key, NewChild),
                                 !.created[vec] = Put(@, key, Get(@, key, 0) + 1)],
                       Some(key))

\* Histogram::observe(v) and IntCounter::inc() on the child of a handle
Observe(w, vec, key, v) ==
    [w EXCEPT !.M[vec][key] = [count |-> @.count + 1, sum |-> @.sum + v]]
\* Inc that stores 1 instead of adding 1
Inc_Store(w, key) ==
    [w EXCEPT !.M["request_stats"][key] = [count |-> 1, sum |-> @.sum]]
Inc(w, key) ==
    [w EXCEPT !.M["request_stats"][key] = [count |-> @.count + 1, sum |-> @.sum]]

\* DurationKey with the route instead of the path label
DurationKey_Route(mw, method) == <<mw.route, method>>

\* lines 137 and 180: &[&self.path, method.as_ref()]
DurationKey(mw, method) == <<mw.path, method>>

\* StatsKey without the status label
StatsKey_NoStatus(path, method, status) == <<path, method, StatusLabel(0)>>

\* line 73: &[path, method.as_ref(), &status.to_string()]
StatsKey(path, method, status) == <<path, method, StatusLabel(status)>>

(***************************************************************************)
(* State of the metrics middleware.                                        *)
(***************************************************************************)
VARIABLES
    METRICS,    \* the three metric vectors and whether the Lazy was forced
    registry,   \* default registry: registrations of each vector
    created,    \* children ever created, per vector and label values
    layers,     \* the MetricsMiddleware values: built by metered_route, or clones
    arcs,       \* the Arc<HashMap<(Method, StatusCode), OnceCell>> of each route
    reqs,       \* the requests handed to a MetricsMiddleware, in order of call
    faults      \* Err outcomes get_metric_with_label_values may still give

mvars == <<METRICS, registry, created, layers, arcs, reqs, faults>>

\* no interceptor built yet, METRICS not used yet
MetricsStart ==
    /\ METRICS = NoMetrics
    /\ registry = [n \in VecNames |-> 0]
    /\ created = NoneCreated
    /\ layers = <<>>
    /\ arcs = <<>>
    /\ reqs = <<>>

(***************************************************************************)
(* State of the body-limit middleware.                                     *)
(***************************************************************************)
VARIABLES
    limiter,    \* the body_limit::Middleware built by BodyLimitLayer, if any
    breqs       \* the requests handed to it, in order of call

bvars == <<limiter, breqs>>

\* no BodyLimitLayer applied yet
BodyLimitStart ==
    /\ limiter = None
    /\ breqs = <<>>

Init ==
    /\ parts \in Requests
    /\ received = parts
    /\ extractor \in {"account", "agent"}
    /\ pc = "recv"
    /\ results = <<>>
    /\ span = EmptySpan
    /\ handlerCalls = 0
    /\ response = None
    /\ lastVerifyFail = None
    /\ MetricsStart
    /\ faults = 0
    /\ BodyLimitStart

\* a connection without a request on it
NoRequest ==
    [ headers |-> [authorization |-> None, x_agent_label |-> None],
      uri_query |-> None,
      extensions |-> [authn |-> None, account |-> None] ]

\* the next request arrives
Receive(p, k) ==
    /\ pc = "idle"
    /\ parts' = p
    /\ received' = p
    /\ extractor' = k
    /\ pc' = "recv"
    /\ UNCHANGED <<results, span, handlerCalls, response, lastVerifyFail>>
    /\ UNCHANGED mvars
    /\ UNCHANGED bvars

\* the response is sent; the request, its span and its response are dropped
Complete ==
    /\ pc = "done"
    /\ parts' = NoRequest
    /\ received' = NoRequest
    /\ pc' = "idle"
    /\ results' = <<>>
    /\ span' = EmptySpan
    /\ handlerCalls' = 0
    /\ response' = None
    /\ UNCHANGED <<extractor, lastVerifyFail>>
    /\ UNCHANGED mvars
    /\ UNCHANGED bvars

Extracted(out) ==
    /\ results' = Append(results, [result |-> out.result, calls |-> out.calls])
    /\ parts' = out.parts
    /\ span' = RecordAll(span, out.recorded)
    /\ lastVerifyFail' =
         IF ~out.result.ok /\ out.calls # <<>>
         THEN Some(Unwrap(out.result.rej).body)
         ELSE lastVerifyFail
    /\ UNCHANGED <<received, extractor, pc, handlerCalls, response>>
    /\ UNCHANGED mvars
    /\ UNCHANGED bvars

ResolveAccountId ==
    /\ pc = "recv"
    /\ extractor = "account"
    /\ Len(results) < MaxResolve
    /\ Extracted(AccountIdExtract(parts))

ResolveAgentId ==
    /\ pc = "recv"
    /\ extractor = "agent"
    /\ Len(results) < MaxResolve
    /\ Extracted(AgentIdExtract(parts))

\* the extraction succeeded: the handler runs with the identity
InvokeHandler ==
    /\ pc = "recv"
    /\ results # <<>>
    /\ results[Len(results)].result.ok
    /\ handlerCalls' = handlerCalls + 1
    /\ response' = Some([status |-> 200, body |-> [type |-> "", title |-> "", status |-> 200]])
    /\ pc' = "done"
    /\ UNCHANGED <<parts, received, extractor, results, span, lastVerifyFail>>
    /\ UNCHANGED mvars
    /\ UNCHANGED bvars

\* the extraction failed: the rejection is the response
Reject ==
    /\ pc = "recv"
    /\ results # <<>>
    /\ ~results[Len(results)].result.ok
    /\ response' = Some(Unwrap(results[Len(results)].result.rej))
    /\ pc' = "done"
    /\ UNCHANGED <<parts, received, extractor, results, span, handlerCalls, lastVerifyFail>>
    /\ UNCHANGED mvars
    /\ UNCHANGED bvars

Next ==
    \/ \E p \in Requests, k \in {"account", "agent"} : Receive(p, k)
    \/ ResolveAccountId
    \/ ResolveAgentId
    \/ InvokeHandler
    \/ Reject
    \/ Complete

Spec == Init /\ [][Next]_vars

(***************************************************************************)
(* The metrics middleware at work.  Requests run concurrently: each is a   *)
(* record that moves from the synchronous part of call ("inner": the       *)
(* timer runs, the inner handler is awaited) through the response          *)
(* ("respond") and, when it is the one to initialise a counter cell,       *)
(* "init", to "done"; a dropped future ends "cancelled".                   *)
(***************************************************************************)
\* interceptors built or cloned
MaxLayers == 2
\* requests handed to the interceptors
MaxRequests == 2
\* Err outcomes of get_metric_with_label_values in SpecMetricsFaulty
MaxFaults == 2

Routes == {RouteRooms, RouteAB}
RequestMethods == {"GET", "DELETE"}
SizeHints == {None, Some(3)}
ResponseStatuses == {200, 599, 600}

TheWorld == World(METRICS, registry, created)

SetWorld(w) ==
    /\ METRICS' = w.M
    /\ registry' = w.registry
    /\ created' = w.created

\* the outcomes get_metric_with_label_values may have now
GetOutcomes == IF faults > 0 THEN {TRUE, FALSE} ELSE {TRUE}

\* ObserveBodySize that observes 0 when the hint has no upper bound
ObserveBodySize_Always(w, mw, method, hint, ok) ==
    LET g == GetMetricWithLabelValues(w, "request_body_size", DurationKey(mw, method), ok)
        v == IF IsSome(hint) THEN Unwrap(hint) ELSE 0
    IN  IF IsSome(g.handle)
        THEN [w |-> Observe(g.w, "request_body_size", Unwrap(g.handle), v),
              observed |-> 1, tried |-> TRUE]
        ELSE [w |-> g.w, observed |-> 0, tried |-> TRUE]

\* lines 177-189: the body size is observed when the hint has an upper bound
ObserveBodySize(w, mw, method, hint, ok) ==
    IF ~IsSome(hint) THEN [w |-> w, observed |-> 0, tried |-> FALSE]
    ELSE LET g == GetMetricWithLabelValues(w, "request_body_size", DurationKey(mw, method), ok)
         IN  IF IsSome(g.handle)
             THEN [w |-> Observe(g.w, "request_body_size", Unwrap(g.handle), Unwrap(hint)),
                   observed |-> 1, tried |-> TRUE]
             ELSE [w |-> g.w, observed |-> 0, tried |-> TRUE]

\* StartTimer that materializes the handle again although the cell is set
StartTimer_Again(w, mw, method, ok) ==
    IF method \notin DOMAIN mw.durations
    THEN [w |-> w, mw |-> mw, timer |-> None, tried |-> FALSE]
    ELSE LET g == GetMetricWithLabelValues(w, "request_duration", DurationKey(mw, method), ok)
         IN  IF IsSome(g.handle)
             THEN [w |-> g.w,
                   mw |-> [mw EXCEPT !.durations[method] = SetCell(Unwrap(g.handle))],
                   timer |-> g.handle, tried |-> TRUE]
             ELSE [w |-> g.w, mw |-> mw, timer |-> None, tried |-> TRUE]

\* lines 130-149: start_timer; tried says whether the materialization ran
StartTimer(w, mw, method, ok) ==
    IF method \notin DOMAIN mw.durations
    THEN [w |-> w, mw |-> mw, timer |-> None, tried |-> FALSE]
    ELSE IF mw.durations[method].state = "set"
    THEN [w |-> w, mw |-> mw, timer |-> mw.durations[method].handle, tried |-> FALSE]
    ELSE LET g == GetMetricWithLabelValues(w, "request_duration", DurationKey(mw, method), ok)
         IN  IF IsSome(g.handle)
             THEN [w |-> g.w,
                   mw |-> [mw EXCEPT !.durations[method] = SetCell(Unwrap(g.handle))],
                   timer |-> g.handle, tried |-> TRUE]
             ELSE [w |-> g.w, mw |-> mw, timer |-> None, tried |-> TRUE]

\* DropTimer that discards the timer without observing
DropTimer_Discard(w, timer) == w

\* HistogramTimer dropped: the elapsed time (not modelled, 0) is observed
DropTimer(w, timer) ==
    IF IsSome(timer) THEN Observe(w, "request_duration", Unwrap(timer), 0) ELSE w

Observed(timer) == IF IsSome(timer) THEN 1 ELSE 0

\* lines 240-243: metered_route builds the interceptor of a route
MeteredRoute(route) ==
    /\ Len(layers) < MaxLayers
    /\ arcs' = Append(arcs, NewStats)
    /\ layers' = Append(layers, NewMiddleware(route, Len(arcs) + 1))
    /\ UNCHANGED <<METRICS, registry, created, reqs, faults>>
    /\ UNCHANGED vars
    /\ UNCHANGED bvars

\* the router clones the service of a route
CloneLayer(i) ==
    /\ Len(layers) < MaxLayers
    /\ layers' = Append(layers, CloneMiddleware(layers[i]))
    /\ UNCHANGED <<METRICS, registry, created, arcs, reqs, faults>>
    /\ UNCHANGED vars
    /\ UNCHANGED bvars

\* lines 167-193: the synchronous part of call, up to the boxed future
Call(i, method, hint, okSize, okTimer) ==
    /\ Len(reqs) < MaxRequests
    /\ LET sz == ObserveBodySize(TheWorld, layers[i], method, hint, okSize)
           st == StartTimer(sz.w, layers[i], method, okTimer)
           failed == {x \in {"size"} : sz.tried /\ ~okSize}
                     \cup {x \in {"timer"} : st.tried /\ ~okTimer}
       IN  /\ okSize \/ sz.tried
           /\ okTimer \/ st.tried
           /\ Cardinality(failed) <= faults
           /\ faults' = faults - Cardinality(failed)
           /\ SetWorld(st.w)
           /\ layers' = [layers EXCEPT ![i] = st.mw]
           /\ reqs' = Append(reqs,
                  [layer |-> i, method |-> method, hint |-> hint, pc |-> "inner",
                   timer |-> st.timer, inner |-> None, returned |-> None,
                   handlerCalls |-> 0, sizeObs |-> sz.observed, durObs |-> 0, incs |-> 0,
                   durInit |-> (st.tried /\ okTimer), failed |-> failed,
                   overlaps |-> {r \in 1..Len(reqs) : reqs[r].pc \in {"inner", "respond", "init"}}])
    /\ UNCHANGED arcs
    /\ UNCHANGED vars
    /\ UNCHANGED bvars

\* the request ends: the timer is dropped with the future's captures
Finished(r, w, pcEnd, ret, incs, failed) ==
    /\ SetWorld(DropTimer(w, reqs[r].timer))
    /\ reqs' = [reqs EXCEPT ![r].pc = pcEnd, ![r].returned = ret,
                            ![r].durObs = @ + Observed(reqs[r].timer),
                            ![r].incs = @ + incs,
                            ![r].failed = @ \cup failed]

\* line 194: inner.call(req).await gives a response
InnerResponds(r, status) ==
    /\ reqs[r].pc = "inner"
    /\ reqs' = [reqs EXCEPT ![r].pc = "respond", ![r].inner = Some(<<"Ok", status>>),
                            ![r].handlerCalls = @ + 1]
    /\ UNCHANGED <<METRICS, registry, created, layers, arcs, faults>>
    /\ UNCHANGED vars
    /\ UNCHANGED bvars

\* line 194: inner.call(req).await? gives an error, which is returned
InnerFails(r) ==
    /\ reqs[r].pc = "inner"
    /\ SetWorld(DropTimer(TheWorld, reqs[r].timer))
    /\ reqs' = [reqs EXCEPT ![r].pc = "done", ![r].inner = Some(<<"Err", 0>>),
                            ![r].returned = Some(<<"Err", 0>>),
                            ![r].handlerCalls = @ + 1,
                            ![r].durObs = @ + Observed(reqs[r].timer)]
    /\ UNCHANGED <<layers, arcs, faults>>
    /\ UNCHANGED vars
    /\ UNCHANGED bvars

\* the future is dropped while the inner handler is awaited
Cancel(r) ==
    /\ reqs[r].pc = "inner"
    /\ Finished(r, TheWorld, "cancelled", None, 0, {})
    /\ UNCHANGED <<layers, arcs, faults>>
    /\ UNCHANGED vars
    /\ UNCHANGED bvars

\* lines 68-88 and 195-197: inc_counter.  Without a slot nothing is counted;
\* a set cell is incremented; an empty cell is initialised by this request;
\* while another request initialises the cell this one waits.
IncCounter(r) ==
    LET q == reqs[r]
        mw == layers[q.layer]
        status == Unwrap(q.inner)[2]
        stats == arcs[mw.stats]
        cell == StatsCell(stats, q.method, status)
    IN  /\ q.pc = "respond"
        /\ IF ~HasStatsSlot(stats, q.method, status)
           THEN /\ Finished(r, TheWorld, "done", q.inner, 0, {})
                /\ UNCHANGED arcs
           ELSE IF cell.state = "set"
           THEN /\ Finished(r, Inc(TheWorld, Unwrap(cell.handle)), "done", q.inner, 1, {})
                /\ UNCHANGED arcs
           ELSE /\ cell.state = "empty"
                /\ arcs' = [arcs EXCEPT ![mw.stats].cells =
                                Put(@, <<q.method, status>>, RunningCell)]
                /\ reqs' = [reqs EXCEPT ![r].pc = "init"]
                /\ UNCHANGED <<METRICS, registry, created>>
        /\ UNCHANGED <<layers, faults>>
        /\ UNCHANGED vars
        /\ UNCHANGED bvars

\* FinishInit that returns the Err of get_metric_with_label_values to the caller
FinishInit_Propagate(r, ok) ==
    LET q == reqs[r]
        mw == layers[q.layer]
        status == Unwrap(q.inner)[2]
        g == GetMetricWithLabelValues(TheWorld, "request_stats",
                                      StatsKey(mw.path, q.method, status), ok)
    IN  /\ q.pc = "init"
        /\ faults' = IF ok THEN faults ELSE faults - 1
        /\ IF IsSome(g.handle)
           THEN /\ arcs' = [arcs EXCEPT ![mw.stats].cells =
                                Put(@, <<q.method, status>>, SetCell(Unwrap(g.handle)))]
                /\ Finished(r, Inc(g.w, Unwrap(g.handle)), "done", q.inner, 1, {})
           ELSE /\ arcs' = [arcs EXCEPT ![mw.stats].cells =
                                Put(@, <<q.method, status>>, EmptyCell)]
                /\ Finished(r, g.w, "done", Some(<<"Err", 0>>), 0, {"counter"})
        /\ UNCHANGED layers
        /\ UNCHANGED vars
        /\ UNCHANGED bvars

\* lines 70-87: the closure of get_or_try_init ends; on Ok the cell is set
\* and the counter incremented, on Err the cell stays empty
FinishInit(r, ok) ==
    LET q == reqs[r]
        mw == layers[q.layer]
        status == Unwrap(q.inner)[2]
        g == GetMetricWithLabelValues(TheWorld, "request_stats",
                                      StatsKey(mw.path, q.method, status), ok)
    IN  /\ q.pc = "init"
        /\ faults' = IF ok THEN faults ELSE faults - 1
        /\ IF IsSome(g.handle)
           THEN /\ arcs' = [arcs EXCEPT ![mw.stats].cells =
                                Put(@, <<q.method, status>>, SetCell(Unwrap(g.handle)))]
                /\ Finished(r, Inc(g.w, Unwrap(g.handle)), "done", q.inner, 1, {})
           ELSE /\ arcs' = [arcs EXCEPT ![mw.stats].cells =
                                Put(@, <<q.method, status>>, EmptyCell)]
                /\ Finished(r, g.w, "done", q.inner, 0, {"counter"})
        /\ UNCHANGED layers
        /\ UNCHANGED vars
        /\ UNCHANGED bvars

\* the extractor state while only the metrics middleware runs
AuthnIdle ==
    /\ parts = NoRequest
    /\ received = NoRequest
    /\ extractor = "account"
    /\ pc = "idle"
    /\ results = <<>>
    /\ span = EmptySpan
    /\ handlerCalls = 0
    /\ response = None
    /\ lastVerifyFail = None

InitMetrics == AuthnIdle /\ MetricsStart /\ faults = 0 /\ BodyLimitStart

InitMetricsFaulty == AuthnIdle /\ MetricsStart /\ faults = MaxFaults /\ BodyLimitStart

NextMetrics ==
    \/ \E route \in Routes : MeteredRoute(route)
    \/ \E i \in 1..Len(layers) : CloneLayer(i)
    \/ \E i \in 1..Len(layers), method \in RequestMethods, hint \in SizeHints,
          okSize \in GetOutcomes, okTimer \in GetOutcomes :
            Call(i, method, hint, okSize, okTimer)
    \/ \E r \in 1..Len(reqs), status \in ResponseStatuses : InnerResponds(r, status)
    \/ \E r \in 1..Len(reqs) : InnerFails(r)
    \/ \E r \in 1..Len(reqs) : Cancel(r)
    \/ \E r \in 1..Len(reqs) : IncCounter(r)
    \/ \E r \in 1..Len(reqs), ok \in GetOutcomes : FinishInit(r, ok)

allvars == <<vars, mvars, bvars>>

\* get_metric_with_label_values never fails: the label count is fixed
SpecMetrics == InitMetrics /\ [][NextMetrics]_allvars

\* get_metric_with_label_values may fail MaxFaults times
SpecMetricsFaulty == InitMetricsFaulty /\ [][NextMetrics]_allvars

(***************************************************************************)
(* The body-limit middleware.  A request is a record that moves from       *)
(* "pending" (the boxed future exists, not yet polled) either to "done"    *)
(* with the middleware's own 413, or through "inner" (the inner service    *)
(* is awaited) to "done"; a dropped future ends "cancelled".               *)
(***************************************************************************)
\* requests handed to the body-limit middleware
MaxBodyRequests == 2

PAYLOAD_TOO_LARGE == 413

\* body_size_limit values, exact body sizes (None: not known), and the
\* results of the inner service: <<"Ok", status, body>> or <<"Err", 0, "">>
BodyLimits == {0, 2}
ExactSizes == {None, Some(0), Some(2), Some(3)}
InnerResults == {<<"Ok", 200, "body">>, <<"Ok", PAYLOAD_TOO_LARGE, "body">>, <<"Err", 0, "">>}

\* lines 38-39: (StatusCode::PAYLOAD_TOO_LARGE, Response::default()).into_response()
TooLargeResponse == <<"Ok", PAYLOAD_TOO_LARGE, "">>

\* TooLarge that also rejects a body of exactly the limit
TooLarge_AtLimit(exact, limit) == IsSome(exact) /\ Unwrap(exact) >= limit

\* lines 36-37: if let Some(len) = size_hint().exact() { if len > limit
TooLarge(exact, limit) == IsSome(exact) /\ Unwrap(exact) > limit

\* lines 53-55 and 61-66: BodyLimitLayer::new(limit).layer(service)
NewBodyLimit(limit) ==
    /\ limiter = None
    /\ limiter' = Some([body_size_limit |-> limit])
    /\ UNCHANGED breqs
    /\ UNCHANGED vars
    /\ UNCHANGED mvars

\* lines 28-35: call captures the limit and boxes the future
BodyLimitCall(exact) ==
    /\ IsSome(limiter)
    /\ Len(breqs) < MaxBodyRequests
    /\ breqs' = Append(breqs,
           [limit |-> Unwrap(limiter).body_size_limit, exact |-> exact, pc |-> "pending",
            handlerCalls |-> 0, inner |-> None, returned |-> None])
    /\ UNCHANGED limiter
    /\ UNCHANGED vars
    /\ UNCHANGED mvars

\* lines 36-43: the future is polled: 413, or the inner service is called
CheckSize(r) ==
    /\ breqs[r].pc = "pending"
    /\ IF TooLarge(breqs[r].exact, breqs[r].limit)
       THEN breqs' = [breqs EXCEPT ![r].pc = "done", ![r].returned = Some(TooLargeResponse)]
       ELSE breqs' = [breqs EXCEPT ![r].pc = "inner", ![r].handlerCalls = @ + 1]
    /\ UNCHANGED limiter
    /\ UNCHANGED vars
    /\ UNCHANGED mvars

\* line 43: inner.call(req).await is the value of the future
BodyInnerReturns(r, res) ==
    /\ breqs[r].pc = "inner"
    /\ breqs' = [breqs EXCEPT ![r].pc = "done", ![r].inner = Some(res),
                              ![r].returned = Some(res)]
    /\ UNCHANGED limiter
    /\ UNCHANGED vars
    /\ UNCHANGED mvars

\* the future is dropped before it is polled or while the inner service runs
BodyCancel(r) ==
    /\ breqs[r].pc \in {"pending", "inner"}
    /\ breqs' = [breqs EXCEPT ![r].pc = "cancelled"]
    /\ UNCHANGED limiter
    /\ UNCHANGED vars
    /\ UNCHANGED mvars

InitBodyLimit == AuthnIdle /\ MetricsStart /\ faults = 0 /\ BodyLimitStart

NextBodyLimit ==
    \/ \E limit \in BodyLimits : NewBodyLimit(limit)
    \/ \E exact \in ExactSizes : BodyLimitCall(exact)
    \/ \E r \in 1..Len(breqs) : CheckSize(r)
    \/ \E r \in 1..Len(breqs), res \in InnerResults : BodyInnerReturns(r, res)
    \/ \E r \in 1..Len(breqs) : BodyCancel(r)

SpecBodyLimit == InitBodyLimit /\ [][NextBodyLimit]_allvars


(***************************************************************************)
(* Vocabulary of the properties, over the request as it was received.      *)
(***************************************************************************)
Authorization == received.headers.authorization

\* the Authorization header has the form "Bearer <token>", <token> a string
HasBearerHeader ==
    /\ IsSome(Authorization)
    /\ Len(Unwrap(Authorization)) >= Len(BearerPrefix)
    /\ SubSeq(Unwrap(Authorization), 1, Len(BearerPrefix)) = BearerPrefix
    /\ IsSome(ToStr(Unwrap(Authorization)))

BearerToken == SubSeq(Unwrap(Authorization), Len(BearerPrefix) + 1, Len(Unwrap(Authorization)))

\* the request carries no Authorization header at all
NoAuthorization == ~IsSome(Authorization)

QueryToken == AccessToken(received)
HasQueryToken == IsSome(QueryToken)

Config == received.extensions.authn
HasConfig == IsSome(Config)

Seeded == received.extensions.account
HasSeeded == IsSome(Seeded)

Resolved == pc # "idle" /\ results # <<>>

\* the AccountId inside a successful result of either extractor
AccountOf(r) == IF extractor = "account" THEN Unwrap(r.id) ELSE Unwrap(r.id).account

\* the result AccountId resolution owes to the verifier's verdict on a token
VerdictHolds(r, token) ==
    LET v == Verify(token, Unwrap(Config))
    IN  IF v.ok
        THEN r.ok /\ AccountOf(r) = AccountId(v.claims.subject, v.claims.audience)
        ELSE ~r.ok /\ Unwrap(r.rej).body.type = "invalid_authentication"

(***************************************************************************)
(* C1: with a bearer header and an access_token parameter both present,    *)
(* the header token is the only token submitted to the verifier and the    *)
(* outcome is the verifier's verdict on the header token, whatever the     *)
(* query token is.                                                         *)
(***************************************************************************)
C1_HeaderPrecedence ==
    (Resolved /\ HasBearerHeader /\ HasQueryToken) =>
        \A i \in 1..Len(results) :
            /\ \A c \in 1..Len(results[i].calls) : results[i].calls[c][1] = BearerToken
            /\ HasConfig =>
                 /\ results[i].calls = << <<BearerToken, Unwrap(Config)>> >>
                 /\ VerdictHolds(results[i].result, BearerToken)

\* an invalid header token next to a valid query token: rejected
C1_Witness ==
    /\ Resolved /\ HasBearerHeader /\ HasQueryToken /\ HasConfig
    /\ BearerToken # Unwrap(QueryToken)
    /\ Verify(Unwrap(QueryToken), Unwrap(Config)).ok
    /\ ~Verify(BearerToken, Unwrap(Config)).ok
    /\ ~results[1].result.ok

(***************************************************************************)
(* C2: a request whose credential (the bearer header, or the access_token  *)
(* parameter of a request without Authorization header) the verifier       *)
(* accepts with claims (s, a) resolves to exactly AccountId{s, a}, and     *)
(* that value is written to the span field account_id.                     *)
(***************************************************************************)
HasCredential == HasBearerHeader \/ (NoAuthorization /\ HasQueryToken)
Credential == IF HasBearerHeader THEN BearerToken ELSE Unwrap(QueryToken)

C2_AcceptedCredential ==
    (Resolved /\ HasConfig /\ HasCredential) =>
        LET v == Verify(Credential, Unwrap(Config))
            id == AccountId(v.claims.subject, v.claims.audience)
        IN  v.ok =>
              /\ \A i \in 1..Len(results) :
                    results[i].result.ok /\ AccountOf(results[i].result) = id
              /\ span.account_id = Some(DisplayAccountId(id))

\* the credential is the query parameter, accepted
C2_Witness ==
    /\ Resolved /\ HasConfig /\ NoAuthorization /\ HasQueryToken
    /\ Verify(Unwrap(QueryToken), Unwrap(Config)).ok
    /\ results[1].result.ok
    /\ span.account_id # None

(***************************************************************************)
(* C3: a request with no Authorization header and no access_token          *)
(* parameter but with a seeded AccountId of audience a resolves to         *)
(* AccountId{"anonymous", a}, and the verifier is not called.              *)
(* As stated the property fails when no verification configuration is      *)
(* attached; C3_SeededAnonymous is the property with that condition added. *)
(***************************************************************************)
NoToken == NoAuthorization /\ ~HasQueryToken

IsAnonymousOfSeed(r) ==
    /\ r.result.ok
    /\ AccountOf(r.result) = AccountId("anonymous", Unwrap(Seeded).audience)
    /\ r.calls = <<>>

C3_Original ==
    (Resolved /\ NoToken /\ HasSeeded) =>
        \A i \in 1..Len(results) : IsAnonymousOfSeed(results[i])

C3_SeededAnonymous ==
    (Resolved /\ NoToken /\ HasSeeded /\ HasConfig) =>
        \A i \in 1..Len(results) : IsAnonymousOfSeed(results[i])

C3_Witness ==
    /\ Resolved /\ NoToken /\ HasSeeded /\ HasConfig
    /\ Unwrap(Seeded).subject = "svc"
    /\ IsAnonymousOfSeed(results[1])
    /\ handlerCalls = 1

(***************************************************************************)
(* C4: a request with no Authorization header, no access_token parameter   *)
(* and no seeded identity is rejected with the code invalid_authentication *)
(* and the inner handler is not invoked.                                   *)
(* As stated the property fails when no verification configuration is      *)
(* attached (the code is then no_authn_config); C4_NoCredential is the     *)
(* property with that condition added.                                     *)
(***************************************************************************)
IsInvalidAuthentication(r) ==
    /\ ~r.result.ok
    /\ Unwrap(r.result.rej).body.type = "invalid_authentication"

C4_Original ==
    (Resolved /\ NoToken /\ ~HasSeeded) =>
        /\ \A i \in 1..Len(results) : IsInvalidAuthentication(results[i])
        /\ handlerCalls = 0

C4_NoCredential ==
    (Resolved /\ NoToken /\ ~HasSeeded /\ HasConfig) =>
        /\ \A i \in 1..Len(results) : IsInvalidAuthentication(results[i])
        /\ handlerCalls = 0

C4_Witness ==
    /\ pc = "done" /\ Resolved /\ NoToken /\ ~HasSeeded /\ HasConfig
    /\ response = Some(MissingIdentity)
    /\ handlerCalls = 0

(***************************************************************************)
(* C5: an identity is returned without a successful verifier call only     *)
(* when the request carries no Authorization header and no access_token    *)
(* parameter; a request carrying a credential that is malformed or fails   *)
(* verification never resolves to an identity, seeded identity or not.     *)
(***************************************************************************)
VerifiedCall(r) ==
    /\ Len(r.calls) = 1
    /\ Verify(r.calls[1][1], r.calls[1][2]).ok

C5_OnlySeededBypass ==
    Resolved =>
        \A i \in 1..Len(results) :
            results[i].result.ok => (VerifiedCall(results[i]) \/ NoToken)

(***************************************************************************)
(* C6: every failure of AccountId or AgentId resolution is a 401 whose     *)
(* code is no_authn_config or invalid_authentication; it is                *)
(* no_authn_config exactly when the request has no verification            *)
(* configuration attached (and then the resolution does fail, whatever     *)
(* credentials or seeded identity the request carries).                    *)
(***************************************************************************)
C6_FailureCodes ==
    Resolved =>
        \A i \in 1..Len(results) :
            LET r == results[i].result
            IN  /\ ~HasConfig => ~r.ok
                /\ ~r.ok =>
                     /\ Unwrap(r.rej).status = 401
                     /\ Unwrap(r.rej).body.status = 401
                     /\ Unwrap(r.rej).body.type \in {"no_authn_config", "invalid_authentication"}
                     /\ (Unwrap(r.rej).body.type = "no_authn_config") <=> ~HasConfig

\* no configuration next to a valid bearer token and a seeded identity
C6_Witness ==
    /\ Resolved /\ ~HasConfig /\ HasBearerHeader /\ BearerToken = TokT2 /\ HasSeeded
    /\ Unwrap(results[1].result.rej).body.type = "no_authn_config"
    /\ extractor = "agent"

(***************************************************************************)
(* C7: the body of the 401 sent for a token that fails verification does   *)
(* not depend on the verifier's error message: once such a body was sent,  *)
(* every later one is identical to it.                                     *)
(***************************************************************************)
C7_GenericBody == [][IsSome(lastVerifyFail) => lastVerifyFail' = lastVerifyFail]_vars

(***************************************************************************)
(* C8: every successful AccountId resolution, on each of its three paths,  *)
(* has recorded the resolved AccountId into the span field account_id; a   *)
(* failed resolution has recorded no account_id.                           *)
(***************************************************************************)
C8_Published ==
    Resolved =>
        \A i \in 1..Len(results) :
            IF results[i].result.ok
            THEN span.account_id = Some(DisplayAccountId(AccountOf(results[i].result)))
            ELSE span.account_id = None

(***************************************************************************)
(* C9: AgentId resolution succeeds exactly when AccountId resolution of    *)
(* the same request does and fails with the same rejection otherwise; on   *)
(* success it yields AgentId{label, account} with the account of that      *)
(* resolution and records it into the span field agent_id.  The claim      *)
(* takes label to be the X-Agent-Label value, or "http" when the header is *)
(* absent (C9_Original); the code also falls back to "http" when the value *)
(* is not a visible-ASCII string (C9_AgentId).                             *)
(***************************************************************************)
XAgentLabel == received.headers.x_agent_label

AgentIdOwed(r, label) ==
    LET acc == AccountIdExtract(received).result
    IN  /\ r.ok = acc.ok
        /\ ~acc.ok => r.rej = acc.rej
        /\ acc.ok =>
             /\ Unwrap(r.id) = AgentId(label, Unwrap(acc.id))
             /\ span.agent_id = Some(DisplayAgentId(AgentId(label, Unwrap(acc.id))))

HasBearerPrefix ==
    /\ IsSome(Authorization)
    /\ Len(Unwrap(Authorization)) >= Len(BearerPrefix)
    /\ SubSeq(Unwrap(Authorization), 1, Len(BearerPrefix)) = BearerPrefix

C20_BearerOnly ==
    (Resolved /\ HasConfig) =>
        \A i \in 1..Len(results) :
            /\ HasBearerHeader => results[i].calls = << <<BearerToken, Unwrap(Config)>> >>
            /\ (IsSome(Authorization) /\ ~HasBearerPrefix /\ ~HasQueryToken) =>
                   results[i].calls = <<>>

(***************************************************************************)
(* Vocabulary of the metrics claims.  A key is a route, a method and, for  *)
(* the outcome counter, a status, taken from the universes of the slots    *)
(* (Methods, StatusCodes): requests outside them have no slot.             *)
(***************************************************************************)
RouteOf(r) == layers[reqs[r].layer].route

Answered(r, status) == reqs[r].inner = Some(<<"Ok", status>>)

\* the requests of a (route, method) and of a (route, method, status)
RequestsOf(route, method) ==
    {r \in 1..Len(reqs) : RouteOf(r) = route /\ reqs[r].method = method}

ResponsesOf(route, method, status) ==
    {r \in RequestsOf(route, method) : Answered(r, status)}

\* the responses the interceptor has returned
ReturnedOf(route, method, status) ==
    {r \in ResponsesOf(route, method, status) : reqs[r].pc = "done"}

CounterValue(route, method, status) ==
    Get(METRICS.request_stats, StatsKey(PathLabel(route), method, status), NewChild).count

CountersCreated(route, method, status) ==
    Get(created.request_stats, StatsKey(PathLabel(route), method, status), 0)

DurationChild(route, method) ==
    Get(METRICS.request_duration, <<PathLabel(route), method>>, NewChild)

BodySizeChild(route, method) ==
    Get(METRICS.request_body_size, <<PathLabel(route), method>>, NewChild)

SlottedMethods == RequestMethods \cap Methods

SlottedStatuses == ResponseStatuses \cap StatusCodes

(***************************************************************************)
(* C11: the requests that were answered with one (route, method, status)   *)
(* of the slot universe, in any interleaving, create exactly one counter,  *)
(* and when all of them have returned the counter's value is their number. *)
(***************************************************************************)
C11_OneCounter ==
    \A route \in Routes, method \in SlottedMethods, status \in SlottedStatuses :
        LET users == ResponsesOf(route, method, status)
        IN  /\ CountersCreated(route, method, status) <= 1
            /\ (users # {} /\ users = ReturnedOf(route, method, status)) =>
                   /\ CountersCreated(route, method, status) = 1
                   /\ CounterValue(route, method, status) = Cardinality(users)

\* two requests in flight together got GET 200 on RouteRooms: one counter, value 2
C11_Witness ==
    /\ Len(reqs) = 2
    /\ reqs[2].overlaps = {1}
    /\ ReturnedOf(RouteRooms, "GET", 200) = {1, 2}
    /\ CountersCreated(RouteRooms, "GET", 200) = 1
    /\ CounterValue(RouteRooms, "GET", 200) = 2

(***************************************************************************)
(* C12: always, each metric vector was registered at most once and for     *)
(* each label set of each vector at most one child was ever created.       *)
(***************************************************************************)
C12_SingleRegistration ==
    /\ \A n \in VecNames : registry[n] <= 1
    /\ \A n \in VecNames : \A key \in DOMAIN created[n] : created[n][key] <= 1

\* two interceptors of one route served GET with a body: one child each
C12_Witness ==
    /\ Len(layers) = 2
    /\ Len(arcs) = 2
    /\ layers[1].route = layers[2].route
    /\ Len(reqs) = 2
    /\ reqs[1].layer = 1 /\ reqs[2].layer = 2
    /\ ReturnedOf(layers[1].route, "GET", 200) = {1, 2}
    /\ BodySizeChild(layers[1].route, "GET").count = 2
    /\ \A n \in VecNames : registry[n] = 1
    /\ \A n \in VecNames : \A key \in DOMAIN created[n] : created[n][key] = 1

(***************************************************************************)
(* C13: whichever materializations of a request fail, the inner handler is *)
(* invoked exactly once and its result is what the interceptor returns;    *)
(* of the request's observations exactly those whose handle failed are     *)
(* missing, and the vectors hold what the requests recorded.               *)
(***************************************************************************)
HasDurationSlot(r) == reqs[r].method \in DOMAIN layers[reqs[r].layer].durations

HasCounterSlot(r) ==
    /\ IsSome(reqs[r].inner)
    /\ Unwrap(reqs[r].inner)[1] = "Ok"
    /\ HasStatsSlot(arcs[layers[reqs[r].layer].stats], reqs[r].method, Unwrap(reqs[r].inner)[2])

C13_FailuresHidden ==
    /\ \A r \in 1..Len(reqs) :
        reqs[r].pc = "done" =>
            /\ reqs[r].handlerCalls = 1
            /\ IsSome(reqs[r].inner)
            /\ reqs[r].returned = reqs[r].inner
            /\ reqs[r].sizeObs = IF IsSome(reqs[r].hint) /\ "size" \notin reqs[r].failed
                                 THEN 1 ELSE 0
            /\ reqs[r].durObs = IF HasDurationSlot(r) /\ "timer" \notin reqs[r].failed
                                THEN 1 ELSE 0
            /\ reqs[r].incs = IF HasCounterSlot(r) /\ "counter" \notin reqs[r].failed
                              THEN 1 ELSE 0
    /\ \A route \in Routes, method \in RequestMethods :
        /\ BodySizeChild(route, method).count =
               Cardinality({r \in RequestsOf(route, method) : reqs[r].sizeObs = 1})
        /\ DurationChild(route, method).count =
               Cardinality({r \in RequestsOf(route, method) : reqs[r].durObs = 1})
        /\ \A status \in ResponseStatuses :
               CounterValue(route, method, status) =
                   Cardinality({r \in ResponsesOf(route, method, status) : reqs[r].incs = 1})

\* the body-size and the counter handle of a GET 200 failed: only the
\* duration was recorded, the response came back
C13_Witness ==
    \E r \in 1..Len(reqs) :
        /\ reqs[r].pc = "done"
        /\ reqs[r].method = "GET"
        /\ reqs[r].failed = {"size", "counter"}
        /\ reqs[r].returned = Some(<<"Ok", 200>>)
        /\ reqs[r].handlerCalls = 1
        /\ reqs[r].sizeObs = 0 /\ reqs[r].durObs = 1 /\ reqs[r].incs = 0

\* the duration handle failed: the size and the counter were recorded
C13_WitnessTimer ==
    \E r \in 1..Len(reqs) :
        /\ reqs[r].pc = "done"
        /\ reqs[r].failed = {"timer"}
        /\ reqs[r].returned = Some(<<"Ok", 200>>)
        /\ reqs[r].sizeObs = 1 /\ reqs[r].durObs = 0 /\ reqs[r].incs = 1

(***************************************************************************)
(* C14: a request of a slotted method that was answered records exactly    *)
(* one duration observation under (route, method) and adds exactly one to  *)
(* the counter of (route, method, status); every counter always equals     *)
(* the number of responses returned with its key, and never decreases.     *)
(***************************************************************************)
C14_PerRequest ==
    \A r \in 1..Len(reqs) :
        (reqs[r].pc = "done" /\ HasCounterSlot(r)) =>
            /\ reqs[r].durObs = 1
            /\ reqs[r].incs = 1
            /\ reqs[r].timer = Some(<<PathLabel(RouteOf(r)), reqs[r].method>>)

C14_PerKey ==
    \A route \in Routes, method \in SlottedMethods :
        /\ DurationChild(route, method).count =
               Cardinality({r \in RequestsOf(route, method) : reqs[r].pc \in {"done", "cancelled"}})
        /\ \A status \in SlottedStatuses :
               CounterValue(route, method, status) =
                   Cardinality(ReturnedOf(route, method, status))

C14_Monotone ==
    \A route \in Routes, method \in SlottedMethods, status \in SlottedStatuses :
        /\ CounterValue(route, method, status)' >= CounterValue(route, method, status)
        /\ CounterValue(route, method, status)' <= CounterValue(route, method, status) + 1

C14_CountsResponses == [](C14_PerRequest /\ C14_PerKey) /\ [][C14_Monotone]_allvars

\* a first GET 200 returned before a second was called: the counter is 2
C14_Witness ==
    /\ Len(reqs) = 2
    /\ reqs[2].overlaps = {}
    /\ ReturnedOf(RouteRooms, "GET", 200) = {1, 2}
    /\ CounterValue(RouteRooms, "GET", 200) = 2
    /\ DurationChild(RouteRooms, "GET").count = 2

(***************************************************************************)
(* C15: a request without a body-size hint records no size observation,    *)
(* no materialization of it fails, and it records its duration and its     *)
(* counter and returns the response like any other; a request with a hint  *)
(* records exactly one size observation, of the hinted value, under        *)
(* (route, method).                                                        *)
(***************************************************************************)
Hinted(route, method) == {r \in RequestsOf(route, method) : IsSome(reqs[r].hint)}

RECURSIVE SumHints(_)
SumHints(rs) ==
    IF rs = {} THEN 0
    ELSE LET r == CHOOSE x \in rs : TRUE
         IN  Unwrap(reqs[r].hint) + SumHints(rs \ {r})

C15_SizeHint ==
    /\ \A r \in 1..Len(reqs) :
        /\ reqs[r].sizeObs = IF IsSome(reqs[r].hint) THEN 1 ELSE 0
        /\ reqs[r].failed = {}
        /\ (~IsSome(reqs[r].hint) /\ reqs[r].pc = "done" /\ HasCounterSlot(r)) =>
               /\ reqs[r].durObs = 1
               /\ reqs[r].incs = 1
               /\ reqs[r].returned = reqs[r].inner
    /\ \A route \in Routes, method \in RequestMethods :
        /\ BodySizeChild(route, method).count = Cardinality(Hinted(route, method))
        /\ BodySizeChild(route, method).sum = SumHints(Hinted(route, method))

\* of two GETs on RouteRooms one had no hint and one the hint 3: one size
\* observation, of 3; both counted
C15_Witness ==
    /\ Len(reqs) = 2
    /\ reqs[1].hint = None /\ reqs[2].hint = Some(3)
    /\ ReturnedOf(RouteRooms, "GET", 200) = {1, 2}
    /\ reqs[1].sizeObs = 0 /\ reqs[1].durObs = 1 /\ reqs[1].incs = 1
    /\ BodySizeChild(RouteRooms, "GET") = [count |-> 1, sum |-> 3]

(***************************************************************************)
(* C16 as stated: the path label of the route "/rooms/:id" is "rooms_id",  *)
(* and its duration histogram and outcome counter are keyed with it.       *)
(***************************************************************************)
\* "rooms_id" and "rooms_:id"
LabelRoomsId == <<114, 111, 111, 109, 115, 95, 105, 100>>
LabelRoomsColonId == <<114, 111, 111, 109, 115, 95, 58, 105, 100>>

RoomsKeyedBy(label) ==
    /\ \A i \in 1..Len(layers) : layers[i].route = RouteRooms => layers[i].path = label
    /\ \A r \in 1..Len(reqs) :
        (RouteOf(r) = RouteRooms /\ reqs[r].method = "GET") =>
            /\ reqs[r].timer = Some(<<label, "GET">>)
            /\ <<label, "GET">> \in DOMAIN METRICS.request_duration
            /\ (reqs[r].pc = "done" /\ Answered(r, 200)) =>
                   Get(METRICS.request_stats, <<label, "GET", StatusLabel(200)>>, NewChild).count >= 1

C16_Original == RoomsKeyedBy(LabelRoomsId)

(***************************************************************************)
(* C16: the path label is a function of the route string only: its         *)
(* leading '/' are stripped and every other '/' is replaced by '_'; for    *)
(* "/rooms/:id" it is "rooms_:id", which keys the duration histogram       *)
(* ("rooms_:id", "GET") and the counter ("rooms_:id", "GET", 200).         *)
(***************************************************************************)
C16_PathLabel ==
    /\ \A i, j \in 1..Len(layers) :
        layers[i].route = layers[j].route => layers[i].path = layers[j].path
    /\ \A i \in 1..Len(layers) :
        /\ layers[i].path # <<>> => layers[i].path[1] # 47
        /\ Len(layers[i].path) <= Len(layers[i].route)
        /\ \A k \in 1..Len(layers[i].path) :
            LET c == layers[i].route[k + Len(layers[i].route) - Len(layers[i].path)]
            IN  layers[i].path[k] = IF c = 47 THEN 95 ELSE c
    /\ RoomsKeyedBy(LabelRoomsColonId)

\* a GET on "/rooms/:id" was answered 200 and counted
C16_Witness ==
    \E r \in 1..Len(reqs) :
        /\ RouteOf(r) = RouteRooms
        /\ reqs[r].method = "GET"
        /\ reqs[r].pc = "done"
        /\ Answered(r, 200)
        /\ reqs[r].durObs = 1
        /\ reqs[r].incs = 1

(***************************************************************************)
(* C17: for one route's interceptor and all its clones (the values that    *)
(* share one Arc of counter slots) and one method, the materialization of  *)
(* the duration handle runs successfully for at most one request.          *)
(***************************************************************************)
MaterializedBy(a, method) ==
    {r \in 1..Len(reqs) : /\ layers[reqs[r].layer].stats = a
                          /\ reqs[r].method = method
                          /\ reqs[r].durInit}

C17_MaterializedOnce ==
    \A a \in 1..Len(arcs), method \in Methods : Cardinality(MaterializedBy(a, method)) <= 1

(***************************************************************************)
(* C18 as stated: the slots of an interceptor are always one per method    *)
(* of {PUT, POST, OPTIONS, GET, PATCH, HEAD} and one per such method and   *)
(* status in [100, 599), so none for 599; all are empty at construction.   *)
(***************************************************************************)
SlotMethods == {"PUT", "POST", "OPTIONS", "GET", "PATCH", "HEAD"}

SlotsAre(statuses) ==
    /\ \A i \in 1..Len(layers) : DOMAIN layers[i].durations = SlotMethods
    /\ \A a \in 1..Len(arcs) :
        /\ arcs[a].methods = SlotMethods
        /\ arcs[a].statuses = statuses
        /\ \A k \in DOMAIN arcs[a].cells : k[1] \in SlotMethods /\ k[2] \in statuses
    /\ reqs = <<>> =>
        /\ \A i \in 1..Len(layers) : \A m \in SlotMethods : layers[i].durations[m] = EmptyCell
        /\ \A a \in 1..Len(arcs) : \A m \in SlotMethods, x \in statuses :
               StatsCell(arcs[a], m, x) = EmptyCell

C18_Original == SlotsAre({x \in 100..599 : x < 599})

(***************************************************************************)
(* C18: the slots of an interceptor are always one per method of {PUT,     *)
(* POST, OPTIONS, GET, PATCH, HEAD} and one per such method and status in  *)
(* [100, 600), 599 included; all are empty at construction and handling    *)
(* requests adds and removes no slot key.                                  *)
(***************************************************************************)
C18_Slots ==
    /\ SlotsAre(100..599)
    /\ \A a \in 1..Len(arcs) :
        /\ HasStatsSlot(arcs[a], "GET", 599)
        /\ ~HasStatsSlot(arcs[a], "GET", 600)
        /\ ~HasStatsSlot(arcs[a], "GET", 99)
        /\ ~HasStatsSlot(arcs[a], "DELETE", 200)

\* a GET answered 599 was counted in its slot
C18_Witness ==
    \E r \in 1..Len(reqs) :
        /\ reqs[r].pc = "done"
        /\ reqs[r].method = "GET"
        /\ Answered(r, 599)
        /\ reqs[r].incs = 1
        /\ StatsCell(arcs[layers[reqs[r].layer].stats], "GET", 599).state = "set"

(***************************************************************************)
(* C19: a request that was cancelled, or whose inner handler returned an   *)
(* error, after its timer was started has recorded exactly one duration    *)
(* observation and no counter increment; no request records any of its     *)
(* observations twice, and a request still in flight has not yet recorded  *)
(* its duration.                                                           *)
(***************************************************************************)
Aborted(r) ==
    \/ reqs[r].pc = "cancelled"
    \/ reqs[r].pc = "done" /\ reqs[r].inner = Some(<<"Err", 0>>)

C19_TimerFinalized ==
    /\ \A r \in 1..Len(reqs) :
        /\ reqs[r].durObs <= 1 /\ reqs[r].incs <= 1 /\ reqs[r].sizeObs <= 1
        /\ reqs[r].pc \in {"inner", "respond", "init"} => reqs[r].durObs = 0
        /\ Aborted(r) =>
            /\ reqs[r].durObs = Observed(reqs[r].timer)
            /\ reqs[r].incs = 0
            /\ reqs[r].method \in Methods => IsSome(reqs[r].timer)
    /\ \A route \in Routes, method \in SlottedMethods :
        /\ DurationChild(route, method).count >=
               Cardinality({r \in RequestsOf(route, method) : Aborted(r)})
        /\ DurationChild(route, method).count <= Cardinality(RequestsOf(route, method))
        /\ \A status \in ResponseStatuses :
               CounterValue(route, method, status) <=
                   Cardinality({r \in RequestsOf(route, method) : ~Aborted(r)})

\* of two GETs on one route one was cancelled and one failed: two duration
\* observations, no counter
C19_Witness ==
    /\ Len(reqs) = 2
    /\ reqs[1].method = "GET" /\ reqs[2].method = "GET"
    /\ RouteOf(1) = RouteOf(2)
    /\ reqs[1].pc = "cancelled"
    /\ reqs[2].pc = "done" /\ reqs[2].inner = Some(<<"Err", 0>>)
    /\ reqs[1].durObs = 1 /\ reqs[2].durObs = 1
    /\ DurationChild(RouteOf(1), "GET").count = 2
    /\ DOMAIN METRICS.request_stats = {}

(***************************************************************************)
(* C21: a materialization that fails leaves its slot empty, and a request  *)
(* that finds the slot empty attempts the materialization; a               *)
(* materialization that succeeds sets the slot, a set slot never changes,  *)
(* and a request that finds it set makes no attempt and uses its handle.   *)
(***************************************************************************)
DurationAttempted(q) == q.durInit \/ "timer" \in q.failed

\* the request this step hands to an interceptor, and the duration slot it finds
C21_Duration ==
    Len(reqs') = Len(reqs) + 1 =>
        LET q == reqs'[Len(reqs')]
            i == q.layer
            m == q.method
        IN  m \in DOMAIN layers[i].durations =>
                /\ layers[i].durations[m].state = "set" =>
                       /\ ~DurationAttempted(q)
                       /\ q.timer = layers[i].durations[m].handle
                /\ layers[i].durations[m].state = "empty" =>
                       /\ DurationAttempted(q)
                       /\ "timer" \in q.failed =>
                              /\ layers'[i].durations[m] = EmptyCell
                              /\ q.timer = None
                       /\ q.durInit =>
                              /\ layers'[i].durations[m].state = "set"
                              /\ q.timer = layers'[i].durations[m].handle

\* the response this step counts, and the counter slot it finds
C21_Counter ==
    \A r \in 1..Len(reqs) :
        LET q == reqs[r]
            a == layers[q.layer].stats
            status == Unwrap(q.inner)[2]
            cell == StatsCell(arcs[a], q.method, status)
            cellAfter == StatsCell(arcs'[a], q.method, status)
        IN  /\ (q.pc = "respond" /\ reqs'[r].pc # "respond" /\ HasCounterSlot(r)) =>
                /\ cell.state = "set" =>
                       /\ reqs'[r].pc = "done"
                       /\ reqs'[r].incs = 1
                       /\ created' = created
                /\ cell.state = "empty" =>
                       /\ reqs'[r].pc = "init"
                       /\ cellAfter = RunningCell
            /\ (q.pc = "init" /\ reqs'[r].pc # "init") =>
                /\ "counter" \in reqs'[r].failed =>
                       /\ cellAfter = EmptyCell
                       /\ reqs'[r].incs = 0
                /\ "counter" \notin reqs'[r].failed =>
                       /\ cellAfter.state = "set"
                       /\ reqs'[r].incs = 1

\* a set slot is only read
C21_SetStays ==
    /\ \A i \in 1..Len(layers) : \A m \in DOMAIN layers[i].durations :
        layers[i].durations[m].state = "set" =>
            layers'[i].durations[m] = layers[i].durations[m]
    /\ \A a \in 1..Len(arcs) : \A k \in DOMAIN arcs[a].cells :
        arcs[a].cells[k].state = "set" =>
            /\ k \in DOMAIN arcs'[a].cells
            /\ arcs'[a].cells[k] = arcs[a].cells[k]

C21_NotMemoized == [][C21_Duration /\ C21_Counter /\ C21_SetStays]_allvars

\* the first GET 200 of an interceptor failed both materializations; the
\* next one, called after it had returned, made both and was counted
C21_Witness ==
    /\ Len(reqs) = 2
    /\ reqs[2].overlaps = {}
    /\ reqs[1].layer = reqs[2].layer
    /\ reqs[1].method = "GET" /\ reqs[2].method = "GET"
    /\ reqs[1].pc = "done" /\ reqs[2].pc = "done"
    /\ Answered(1, 200) /\ Answered(2, 200)
    /\ reqs[1].failed = {"timer", "counter"}
    /\ reqs[1].durObs = 0 /\ reqs[1].incs = 0
    /\ reqs[2].failed = {}
    /\ reqs[2].durInit
    /\ reqs[2].durObs = 1 /\ reqs[2].incs = 1
    /\ StatsCell(arcs[layers[reqs[2].layer].stats], "GET", 200).state = "set"

(***************************************************************************)
(* C22: a request whose method has no slot, or whose response status has   *)
(* none, reaches the inner handler once and gets its response back as it   *)
(* is; no timer is started for such a method, no counter is incremented    *)
(* and no duration or counter child is created for such a key; its body    *)
(* size is still observed under its method when it has a hint.             *)
(***************************************************************************)
UnslottedMethods == RequestMethods \ Methods

UnslottedStatuses == ResponseStatuses \ StatusCodes

C22_Unslotted ==
    /\ \A r \in 1..Len(reqs) :
        /\ reqs[r].method \notin Methods =>
            /\ reqs[r].timer = None
            /\ reqs[r].durObs = 0
            /\ reqs[r].incs = 0
            /\ reqs[r].sizeObs = IF IsSome(reqs[r].hint) THEN 1 ELSE 0
        /\ (reqs[r].pc = "done" /\ IsSome(reqs[r].inner) /\ ~HasCounterSlot(r)) =>
            /\ reqs[r].incs = 0
            /\ reqs[r].handlerCalls = 1
            /\ reqs[r].returned = reqs[r].inner
    /\ \A route \in Routes, method \in UnslottedMethods :
        /\ <<PathLabel(route), method>> \notin DOMAIN created.request_duration
        /\ \A status \in ResponseStatuses :
            StatsKey(PathLabel(route), method, status) \notin DOMAIN created.request_stats
        /\ BodySizeChild(route, method).count = Cardinality(Hinted(route, method))
    /\ \A route \in Routes, method \in RequestMethods, status \in UnslottedStatuses :
        StatsKey(PathLabel(route), method, status) \notin DOMAIN created.request_stats

\* a DELETE with the hint 3 was answered 200 and a GET was answered 600
C22_Witness ==
    \E r, t \in 1..Len(reqs) :
        /\ reqs[r].method = "DELETE"
        /\ reqs[r].hint = Some(3)
        /\ reqs[r].pc = "done"
        /\ reqs[r].returned = Some(<<"Ok", 200>>)
        /\ BodySizeChild(RouteOf(r), "DELETE") = [count |-> 1, sum |-> 3]
        /\ reqs[t].method = "GET"
        /\ reqs[t].pc = "done"
        /\ reqs[t].returned = Some(<<"Ok", 600>>)
        /\ reqs[t].durObs = 1
        /\ DOMAIN created.request_stats = {}

(***************************************************************************)
(* Metered routes whose route strings share one path label.                *)
(***************************************************************************)
CollidingRoutes == {RouteAB, RouteA_B}

\* "a_b"
LabelA_B == <<97, 95, 98>>

NextColliding ==
    \/ \E route \in CollidingRoutes : MeteredRoute(route)
    \/ \E i \in 1..Len(layers) : CloneLayer(i)
    \/ \E i \in 1..Len(layers), method \in RequestMethods, hint \in SizeHints,
          okSize \in GetOutcomes, okTimer \in GetOutcomes :
            Call(i, method, hint, okSize, okTimer)
    \/ \E r \in 1..Len(reqs), status \in ResponseStatuses : InnerResponds(r, status)
    \/ \E r \in 1..Len(reqs) : InnerFails(r)
    \/ \E r \in 1..Len(reqs) : Cancel(r)
    \/ \E r \in 1..Len(reqs) : IncCounter(r)
    \/ \E r \in 1..Len(reqs), ok \in GetOutcomes : FinishInit(r, ok)

SpecColliding == InitMetrics /\ [][NextColliding]_allvars

(***************************************************************************)
(* C23: the interceptors of "/a/b" and "/a_b" have the label "a_b" and     *)
(* slots of their own; nothing is registered or created twice, and the     *)
(* counter of ("a_b", method, status) is the number of responses returned  *)
(* with that method and status over both routes.                           *)
(***************************************************************************)
ReturnedWith(method, status) ==
    {r \in 1..Len(reqs) : /\ reqs[r].method = method
                          /\ Answered(r, status)
                          /\ reqs[r].pc = "done"}

C23_SharedLabel ==
    /\ \A i \in 1..Len(layers) : layers[i].path = LabelA_B
    /\ \A i, j \in 1..Len(layers) :
        layers[i].route # layers[j].route => layers[i].stats # layers[j].stats
    /\ \A n \in VecNames : registry[n] <= 1
    /\ \A n \in VecNames : \A key \in DOMAIN created[n] : created[n][key] <= 1
    /\ \A r \in 1..Len(reqs) : reqs[r].failed = {}
    /\ \A method \in SlottedMethods, status \in SlottedStatuses :
        Get(METRICS.request_stats, StatsKey(LabelA_B, method, status), NewChild).count =
            Cardinality(ReturnedWith(method, status))

\* a GET 200 on "/a/b" and one on "/a_b": each interceptor set its own
\* slots, the one counter is 2
C23_Witness ==
    /\ Len(layers) = 2
    /\ layers[1].route = RouteAB /\ layers[2].route = RouteA_B
    /\ Len(reqs) = 2
    /\ reqs[1].layer = 1 /\ reqs[2].layer = 2
    /\ ReturnedWith("GET", 200) = {1, 2}
    /\ reqs[1].durInit /\ reqs[2].durInit
    /\ StatsCell(arcs[layers[1].stats], "GET", 200).state = "set"
    /\ StatsCell(arcs[layers[2].stats], "GET", 200).state = "set"
    /\ created.request_stats[StatsKey(LabelA_B, "GET", 200)] = 1
    /\ METRICS.request_stats[StatsKey(LabelA_B, "GET", 200)].count = 2
    /\ METRICS.request_duration[<<LabelA_B, "GET">>].count = 2

(***************************************************************************)
(* C24: a request whose exact body size is known and greater than the      *)
(* limit never reaches the inner handler and is answered with an empty     *)
(* 413; any other request that completes reached the inner handler exactly *)
(* once and got the inner handler's result.                                *)
(***************************************************************************)
Exceeds(r) == IsSome(breqs[r].exact) /\ Unwrap(breqs[r].exact) > breqs[r].limit

C24_BodyLimit ==
    \A r \in 1..Len(breqs) :
        /\ breqs[r].handlerCalls <= 1
        /\ Exceeds(r) => breqs[r].handlerCalls = 0
        /\ breqs[r].pc = "done" =>
            /\ Exceeds(r) => breqs[r].returned = Some(<<"Ok", 413, "">>)
            /\ ~Exceeds(r) =>
                /\ breqs[r].handlerCalls = 1
                /\ IsSome(breqs[r].inner)
                /\ breqs[r].returned = breqs[r].inner

\* with the limit 2: a body of 3 got the 413 and the inner handler did not
\* run; a body of exactly 2 got the inner handler's response
C24_Witness ==
    /\ limiter = Some([body_size_limit |-> 2])
    /\ Len(breqs) = 2
    /\ breqs[1].exact = Some(3) /\ breqs[2].exact = Some(2)
    /\ breqs[1].pc = "done" /\ breqs[2].pc = "done"
    /\ breqs[1].handlerCalls = 0 /\ breqs[2].handlerCalls = 1
    /\ breqs[1].returned = Some(<<"Ok", 413, "">>)
    /\ breqs[2].returned = Some(<<"Ok", 200, "body">>)

\* with the limit 0: a body of unknown size got the inner handler's error
C24_WitnessUnknown ==
    \E r \in 1..Len(breqs) :
        /\ breqs[r].limit = 0
        /\ breqs[r].exact = None
        /\ breqs[r].pc = "done"
        /\ breqs[r].handlerCalls = 1
        /\ breqs[r].returned = Some(<<"Err", 0, "">>)
====
